---- MODULE Spec2Model ----
(***************************************************************************)
(* Order fulfillment engine of the inventory backend: the slips router     *)
(* (create / edit / cancel / delete a slip, with the stock and income      *)
(* writes each performs inside a store transaction) and the items router   *)
(* (stock adjustment, soft delete).                                        *)
(*                                                                         *)
(* The store is a document store with multi-document transactions: a       *)
(* transaction reads its own snapshot plus its own writes, a write to a    *)
(* document that another transaction has written (uncommitted, or          *)
(* committed after the snapshot) raises a write conflict, and commit       *)
(* publishes the transaction's writes at once.  Writes outside a           *)
(* transaction wait for a document held by an open transaction.            *)
(***************************************************************************)
EXTENDS Integers, Sequences, FiniteSets, TLC

VARIABLES
    items,      \* Item collection, in the store's natural (insertion) order
    slips,      \* Slip collection: slip id -> document
    incomes,    \* Income collection, in insertion order
    nextId,     \* next slip id the driver hands out
    nreq,       \* number of requests started so far
    pc,         \* per request task: position in its handler
    body,       \* per request task: the request (params and req.body)
    pre,        \* per request task: the store as it was when the request began
    view,       \* per request task: the transaction's view (snapshot + own writes)
    wrote,      \* per request task: documents written in the open transaction
    stale,      \* per request task: documents committed by others since the snapshot
    updates,    \* per request task: productUpdates
    k,          \* per request task: loop index
    resp        \* per request task: the response sent and the transaction's fate

vars == <<items, slips, incomes, nextId, nreq, pc, body, pre, view, wrote, stale,
          updates, k, resp>>

(***************************************************************************)
(* Bounds                                                                  *)
(***************************************************************************)
InitQty     == 2    \* quantity each Item starts with
MaxReqQty   == 2    \* largest quantity on a requested line
MaxRequests == 3    \* requests started in one behaviour
MaxSlips    == 2    \* slips created in one behaviour

Procs    == {"t1", "t2"}
SeqProcs == {"t1"}

(***************************************************************************)
(* Strings are sequences of characters, so that the case-insensitive       *)
(* containment match of the resolution policy is computed, not assumed.    *)
(***************************************************************************)
Lower(c) ==
    CASE c = "P" -> "p"
      [] c = "A" -> "a"
      [] c = "D" -> "d"
      [] c = "S" -> "s"
      [] OTHER   -> c

LowerStr(s) == [i \in 1..Len(s) |-> Lower(s[i])]

\* new RegExp(pattern, 'i').test(text) for a pattern of plain characters
RegexTest(pattern, text) ==
    \E i \in 0..Len(text) :
        /\ i + Len(pattern) <= Len(text)
        /\ LowerStr(SubSeq(text, i + 1, i + Len(pattern))) = LowerStr(pattern)

NamePa  == <<"p", "a">>
NamePad == <<"p", "a", "d">>
NameZ   == <<"z">>

InitItems ==
    << [name |-> <<"P", "a">>,      sku |-> <<"S", "1">>, quantity |-> InitQty, isActive |-> TRUE],
       [name |-> <<"P", "a", "d">>, sku |-> <<"S", "2">>, quantity |-> InitQty, isActive |-> TRUE] >>

(***************************************************************************)
(* Optional values: {} is undefined, {v} is the value v.                   *)
(***************************************************************************)
Undef      == {}
Some(v)    == {v}
IsDef(o)   == o # {}
Val(o)     == CHOOSE v \in o : TRUE
\* a || b on optional numbers (undefined and 0 are falsy)
Truthy(o)  == IsDef(o) /\ Val(o) # 0
OrElse(a, b) == IF Truthy(a) THEN a ELSE b
(***************************************************************************)
(* Item lookup: Item.findOne({$or: [name ~ re, sku ~ re], isActive: true}) *)
(* returns the first matching document in natural order, 0 when none.      *)
(***************************************************************************)
Matches(it, productName) ==
    /\ it.isActive
    /\ \/ RegexTest(productName, it.name)
       \/ RegexTest(productName, it.sku)

FindOne(its, productName) ==
    LET hits == {i \in 1..Len(its) : Matches(its[i], productName)}
    IN  IF hits = {} THEN 0 ELSE CHOOSE i \in hits : \A j \in hits : i <= j

\* faulty variants of the stock check: the requested quantity is ignored; off by one
InsufficientIgnoresRequest(it, quantity) == it.quantity < 0
InsufficientOffByOne(it, quantity) == it.quantity <= quantity

\* inventoryItem.quantity < quantity
Insufficient(it, quantity) == it.quantity < quantity

\* faulty variant of the stock update: the delta is stored, not added
IncQuantityAsSet(its, id, delta) ==
    [its EXCEPT ![id].quantity = delta]

\* Item.findByIdAndUpdate(id, {$inc: {quantity: delta}})
IncQuantity(its, id, delta) ==
    [its EXCEPT ![id].quantity = its[id].quantity + delta]

(***************************************************************************)
(* Pricing: the products.map callback of the create handler                *)
(***************************************************************************)
BulkDiscountTypes == {"Aster Cover", "Without Aster Cover", "Calendar Cover"}

BulkThreshold == 10
BulkRupees    == 10

\* faulty variants of the bulk rule: the threshold itself gets no discount;
\* no line gets one
calculateBulkDiscountAbove(coverType, quantity) ==
    IF coverType \in BulkDiscountTypes /\ quantity > BulkThreshold THEN BulkRupees ELSE 0

calculateBulkDiscountNever(coverType, quantity) == 0

calculateBulkDiscount(coverType, quantity) ==
    IF coverType \in BulkDiscountTypes /\ quantity >= BulkThreshold THEN BulkRupees ELSE 0

OrStr(s, d) == IF s = "" THEN d ELSE s

\* faulty variant of the pricing: the discount is stored per unit
PricedFieldsPerUnit(p) ==
    LET basePrice   == Val(OrElse(p.basePrice, OrElse(p.unitPrice, OrElse(p.price, Some(0)))))
        productType == OrStr(p.productType, "Cover")
        bulk        == IF productType = "Cover" /\ p.coverType # ""
                       THEN calculateBulkDiscount(p.coverType, p.quantity)
                       ELSE 0
        finalUnit   == IF IsDef(p.unitPrice) THEN Val(p.unitPrice) ELSE basePrice - bulk
        manual      == IsDef(p.unitPrice) /\ Val(p.unitPrice) # basePrice - bulk
    IN  [ productName    |-> p.productName,
          productType    |-> productType,
          coverType      |-> p.coverType,
          plateCompany   |-> p.plateCompany,
          quantity       |-> p.quantity,
          basePrice      |-> basePrice,
          unitPrice      |-> finalUnit,
          discountAmount |-> IF manual THEN basePrice - finalUnit ELSE bulk,
          discountType   |-> IF manual THEN "manual" ELSE IF bulk > 0 THEN "bulk" ELSE "none",
          totalPrice     |-> p.quantity * finalUnit ]

\* the pricing fields both handlers compute the same way
PricedFields(p) ==
    LET basePriceO  == OrElse(p.basePrice, OrElse(p.unitPrice, OrElse(p.price, Some(0))))
        basePrice   == Val(basePriceO)
        productType == OrStr(p.productType, "Cover")
        bulk        == IF productType = "Cover" /\ p.coverType # ""
                       THEN calculateBulkDiscount(p.coverType, p.quantity)
                       ELSE 0
        finalUnit   == IF IsDef(p.unitPrice) THEN Val(p.unitPrice) ELSE basePrice - bulk
        manual      == IsDef(p.unitPrice) /\ Val(p.unitPrice) # basePrice - bulk
        perUnit     == IF manual THEN basePrice - finalUnit ELSE bulk
    IN  [ productName    |-> p.productName,
          productType    |-> productType,
          coverType      |-> p.coverType,
          plateCompany   |-> p.plateCompany,
          quantity       |-> p.quantity,
          basePrice      |-> basePrice,
          unitPrice      |-> finalUnit,
          discountAmount |-> perUnit * p.quantity,
          discountType   |-> IF manual THEN "manual" ELSE IF bulk > 0 THEN "bulk" ELSE "none",
          totalPrice     |-> p.quantity * finalUnit ]

\* the Slip schema's default for a path the handler leaves out
SchemaDefault == ""

CreateLine(p) == PricedFields(p) @@ [formCompany |-> p.formCompany]
EditLine(p)   == PricedFields(p) @@ [formCompany |-> SchemaDefault]

CreateLines(ps) == [i \in 1..Len(ps) |-> CreateLine(ps[i])]
EditLines(ps)   == [i \in 1..Len(ps) |-> EditLine(ps[i])]

(***************************************************************************)
(* Requests                                                                *)
(***************************************************************************)
ReqLine(name, q) ==
    [ productName |-> name, quantity |-> q, basePrice |-> Some(100), unitPrice |-> Undef,
      price |-> Undef, productType |-> "Cover", coverType |-> "Aster Cover",
      plateCompany |-> "", formCompany |-> "" ]

\* the requested line lists: one line on the first Item at every quantity, a
\* negative one included, a line on the second Item, a line nothing matches, and
\* two lines that resolve to one Item, to two Items, or fail at the second line
ProductLists ==
    {<<>>, <<ReqLine(NamePad, 1)>>, <<ReqLine(NameZ, 1)>>}
    \cup {<<ReqLine(NamePa, q)>> : q \in -1..MaxReqQty}
    \cup {<<ReqLine(NamePa, 1), ReqLine(NamePa, MaxReqQty)>>,
          <<ReqLine(NamePa, 1), ReqLine(NamePad, MaxReqQty)>>,
          <<ReqLine(NamePad, 1), ReqLine(NameZ, 1)>>,
          <<ReqLine(NamePa, MaxReqQty), ReqLine(NamePa, 0)>>}

NoBody == [op |-> "none"]
NoView == [items |-> <<>>, slips |-> <<>>, incomes |-> <<>>]
NoResp == [code |-> 0, txn |-> "none", at |-> ""]

\* debited is history, not a path of the document: the Item each line of the
\* record was debited from when the line was committed
AbsentSlip ==
    [present |-> FALSE, products |-> <<>>, status |-> "", cancelledAt |-> FALSE,
     subtotal |-> Undef, totalAmount |-> Undef, debited |-> <<>>]

SlipIds == 1..MaxSlips

Store == [items |-> items, slips |-> slips, incomes |-> incomes]

\* documents are named by collection and id
ItemDoc(i)   == <<"item", i>>
SlipDoc(i)   == <<"slip", i>>
IncomeDoc(i) == <<"income", i>>

CreatePcs == {"c_check", "c_reduce", "c_saveSlip", "c_saveIncome", "c_commit"}
EditPcs   == {"e_restore", "e_validate", "e_reduce", "e_cancelIncome", "e_cancelRestore",
              "e_saveSlip", "e_income", "e_commit"}
TxnPcs    == CreatePcs \cup EditPcs

InTxn(p) == pc[p] \in TxnPcs

\* faulty variant of the conflict check: writes are not made in the session
ConflictNever(p, d) == FALSE

\* a transactional write to document d by p raises WriteConflict
Conflict(p, d) ==
    \/ d \in stale[p]
    \/ \E q \in Procs \ {p} : InTxn(q) /\ d \in wrote[q]

Init ==
    /\ items = InitItems
    /\ slips = [i \in SlipIds |-> AbsentSlip]
    /\ incomes = <<>>
    /\ nextId = 1
    /\ nreq = 0
    /\ pc = [p \in Procs |-> "idle"]
    /\ body = [p \in Procs |-> NoBody]
    /\ pre = [p \in Procs |-> NoView]
    /\ view = [p \in Procs |-> NoView]
    /\ wrote = [p \in Procs |-> {}]
    /\ stale = [p \in Procs |-> {}]
    /\ updates = [p \in Procs |-> <<>>]
    /\ k = [p \in Procs |-> 0]
    /\ resp = [p \in Procs |-> NoResp]

(***************************************************************************)
(* Leaving a handler                                                       *)
(***************************************************************************)
\* res.status(code) with the transaction left as txn; the task's locals die
Respond(p, code, txn) ==
    /\ pc' = [pc EXCEPT ![p] = "done"]
    /\ resp' = [resp EXCEPT ![p] = [code |-> code, txn |-> txn, at |-> pc[p]]]
    /\ wrote' = [wrote EXCEPT ![p] = {}]
    /\ stale' = [stale EXCEPT ![p] = {}]
    /\ updates' = [updates EXCEPT ![p] = <<>>]
    /\ k' = [k EXCEPT ![p] = 0]

\* the collections once the writes of p's transaction are visible
MergedItems(p) ==
    [i \in 1..Len(items) |->
        IF ItemDoc(i) \in wrote[p] THEN view[p].items[i] ELSE items[i]]

MergedSlips(p) ==
    [i \in SlipIds |-> IF SlipDoc(i) \in wrote[p] THEN view[p].slips[i] ELSE slips[i]]

MergedIncomes(p) ==
    [j \in 1..Len(incomes) |->
        IF IncomeDoc(j) \in wrote[p] THEN view[p].incomes[j] ELSE incomes[j]]
    \o SubSeq(view[p].incomes, Len(pre[p].incomes) + 1, Len(view[p].incomes))

\* faulty variants of the abort: the response is sent and every write stays; the
\* response is sent and the Item writes stay
AbortKeepsWrites(p, code) ==
    /\ Respond(p, code, "aborted")
    /\ view' = [view EXCEPT ![p] = NoView]
    /\ items' = MergedItems(p)
    /\ slips' = MergedSlips(p)
    /\ incomes' = MergedIncomes(p)

AbortKeepsItems(p, code) ==
    /\ Respond(p, code, "aborted")
    /\ view' = [view EXCEPT ![p] = NoView]
    /\ items' = MergedItems(p)
    /\ UNCHANGED <<slips, incomes>>

\* session.abortTransaction(): the transaction's writes are dropped
Abort(p, code) ==
    /\ Respond(p, code, "aborted")
    /\ view' = [view EXCEPT ![p] = NoView]
    /\ UNCHANGED <<items, slips, incomes>>

\* the documents W become visible: every other open transaction's snapshot
\* is now older than them
Publish(p, W) ==
    [q \in Procs |-> IF q # p /\ InTxn(q) THEN stale[q] \cup W ELSE stale[q]]

\* session.commitTransaction(): the transaction's writes become visible at once
Commit(p, code) ==
    /\ items' = MergedItems(p)
    /\ slips' = MergedSlips(p)
    /\ incomes' = MergedIncomes(p)
    /\ pc' = [pc EXCEPT ![p] = "done"]
    /\ resp' = [resp EXCEPT ![p] = [code |-> code, txn |-> "committed", at |-> pc[p]]]
    /\ wrote' = [wrote EXCEPT ![p] = {}]
    /\ stale' = [q \in Procs |-> IF q = p THEN {} ELSE Publish(p, wrote[p])[q]]
    /\ updates' = [updates EXCEPT ![p] = <<>>]
    /\ k' = [k EXCEPT ![p] = 0]
    /\ view' = [view EXCEPT ![p] = NoView]

\* the task is free for the next request
Return(p) ==
    /\ pc[p] = "done"
    /\ pc' = [pc EXCEPT ![p] = "idle"]
    /\ body' = [body EXCEPT ![p] = NoBody]
    /\ pre' = [pre EXCEPT ![p] = NoView]
    /\ view' = [view EXCEPT ![p] = NoView]
    /\ resp' = [resp EXCEPT ![p] = NoResp]
    /\ UNCHANGED <<items, slips, incomes, nextId, nreq, wrote, stale, updates, k>>

\* a request reaches its handler
Accept(p, b) ==
    /\ pc[p] = "idle"
    /\ nreq < MaxRequests
    /\ nreq' = nreq + 1
    /\ body' = [body EXCEPT ![p] = b]
    /\ pre' = [pre EXCEPT ![p] = Store]

\* session.startTransaction() and the snapshot its first read opens
StartTransaction(p, b) ==
    /\ Accept(p, b)
    /\ view' = [view EXCEPT ![p] = Store]

(***************************************************************************)
(* router.post('/'): create slip + update inventory                        *)
(***************************************************************************)
CreateBody(products, subtotal, totalAmount) ==
    [op |-> "create", products |-> products, subtotal |-> subtotal,
     totalAmount |-> totalAmount]

Given == Some(200)

CreateBodies ==
    {CreateBody(Some(l), Given, Given) : l \in ProductLists}
    \cup {CreateBody(Undef, Given, Given),
          CreateBody(Some(<<ReqLine(NamePa, 1)>>), Undef, Given),
          CreateBody(Some(<<ReqLine(NamePa, 1)>>), Given, Undef)}

\* lines 63-75: the 400 responses leave the transaction open
CreateBegin(p, b) ==
    /\ nextId + Cardinality({q \in Procs : pc[q] \in {"c_check", "c_reduce", "c_saveSlip"}})
          <= MaxSlips
    /\ StartTransaction(p, b)
    /\ IF ~IsDef(b.products) \/ Len(Val(b.products)) = 0
          \/ ~IsDef(b.subtotal) \/ ~IsDef(b.totalAmount)
       THEN /\ Respond(p, 400, "open")
       ELSE /\ pc' = [pc EXCEPT ![p] = "c_check"]
            /\ k' = [k EXCEPT ![p] = 1]
            /\ UNCHANGED <<resp, wrote, stale, updates>>
    /\ UNCHANGED <<items, slips, incomes, nextId>>

\* lines 79-106, one line of the request per step
CreateCheck(p) ==
    /\ pc[p] = "c_check"
    /\ LET prods == Val(body[p].products)
           line  == prods[k[p]]
           id    == FindOne(view[p].items, line.productName)
       IN  IF id = 0 \/ Insufficient(view[p].items[id], line.quantity)
           THEN /\ Respond(p, 400, "open")
                /\ UNCHANGED view
           ELSE /\ updates' = [updates EXCEPT ![p] =
                                  Append(@, [itemId |-> id, quantity |-> line.quantity])]
                /\ IF k[p] < Len(prods)
                   THEN /\ k' = [k EXCEPT ![p] = @ + 1]
                        /\ UNCHANGED pc
                   ELSE /\ k' = [k EXCEPT ![p] = 1]
                        /\ pc' = [pc EXCEPT ![p] = "c_reduce"]
                /\ UNCHANGED <<resp, wrote, stale, view>>
    /\ UNCHANGED <<items, slips, incomes, nextId, nreq, body, pre>>

\* lines 184-190, one findByIdAndUpdate per step
CreateReduce(p) ==
    /\ pc[p] = "c_reduce"
    /\ LET u == updates[p][k[p]]
       IN  IF Conflict(p, ItemDoc(u.itemId))
           THEN Abort(p, 500)
           ELSE /\ view' = [view EXCEPT ![p].items = IncQuantity(@, u.itemId, -u.quantity)]
                /\ wrote' = [wrote EXCEPT ![p] = @ \cup {ItemDoc(u.itemId)}]
                /\ IF k[p] < Len(updates[p])
                   THEN /\ k' = [k EXCEPT ![p] = @ + 1]
                        /\ UNCHANGED pc
                   ELSE /\ k' = [k EXCEPT ![p] = 0]
                        /\ pc' = [pc EXCEPT ![p] = "c_saveSlip"]
                /\ UNCHANGED <<resp, stale, updates, items, slips, incomes>>
    /\ UNCHANGED <<nextId, nreq, body, pre>>

\* lines 175-181
NewSlip(b) ==
    [present |-> TRUE, products |-> CreateLines(Val(b.products)), status |-> "Paid",
     cancelledAt |-> FALSE, subtotal |-> b.subtotal, totalAmount |-> b.totalAmount,
     debited |-> <<>>]

\* the record with the Items of productUpdates noted as the ones its lines were
\* debited from
Debited(slip, productUpdates) ==
    [slip EXCEPT !.debited = [j \in 1..Len(productUpdates) |-> productUpdates[j].itemId]]

\* the validators of the Slip schema, which save() runs: the data model gives a
\* Priced Line a quantity and puts no bound on it
SlipValidates(slip) == \A j \in 1..Len(slip.products) : slip.products[j].quantity \in Int

\* line 192: newSlip.save({ session }); a validation error is thrown to the catch
CreateSaveSlip(p) ==
    /\ pc[p] = "c_saveSlip"
    /\ IF SlipValidates(NewSlip(body[p]))
       THEN /\ view' = [view EXCEPT ![p].slips[nextId] =
                              Debited(NewSlip(body[p]), updates[p])]
            /\ wrote' = [wrote EXCEPT ![p] = @ \cup {SlipDoc(nextId)}]
            /\ k' = [k EXCEPT ![p] = nextId]
            /\ nextId' = nextId + 1
            /\ pc' = [pc EXCEPT ![p] = "c_saveIncome"]
            /\ UNCHANGED <<items, slips, incomes, stale, updates, resp>>
       ELSE /\ Abort(p, 500)
            /\ UNCHANGED nextId
    /\ UNCHANGED <<nreq, body, pre>>

SoldLine(l) ==
    [productName |-> l.productName, quantity |-> l.quantity, unitPrice |-> l.unitPrice,
     totalPrice |-> l.totalPrice]

SoldLines(ls) == [i \in 1..Len(ls) |-> SoldLine(ls[i])]

\* lines 195-221
NewIncome(b, slipId, slip) ==
    [slipId |-> slipId, isActive |-> TRUE, totalIncome |-> b.totalAmount,
     productsSold |-> SoldLines(slip.products)]

\* line 223
CreateSaveIncome(p) ==
    /\ pc[p] = "c_saveIncome"
    /\ view' = [view EXCEPT ![p].incomes =
                   Append(@, NewIncome(body[p], k[p], view[p].slips[k[p]]))]
    /\ pc' = [pc EXCEPT ![p] = "c_commit"]
    /\ UNCHANGED <<items, slips, incomes, nextId, nreq, body, pre, wrote, stale, updates,
                   k, resp>>

\* lines 225-231
CreateCommit(p) ==
    /\ pc[p] = "c_commit"
    /\ Commit(p, 201)
    /\ UNCHANGED <<nextId, nreq, body, pre>>

\* lines 233-238: a store call of the try block throws
CreateThrow(p) ==
    /\ pc[p] \in CreatePcs
    /\ Abort(p, 500)
    /\ UNCHANGED <<nextId, nreq, body, pre>>

(***************************************************************************)
(* router.put('/:id'): update slip with inventory adjustment               *)
(***************************************************************************)
EditBody(id, products, status, totalAmount) ==
    [op |-> "edit", id |-> id, products |-> products, status |-> status,
     subtotal |-> Undef, totalAmount |-> totalAmount]

\* status "" is a request without a status field
EditBodies ==
    {EditBody(id, Some(l), st, Undef) :
        id \in SlipIds, l \in ProductLists, st \in {"", "Cancelled"}}
    \cup {EditBody(id, Undef, st, t) :
            id \in SlipIds, st \in {"", "Paid", "Cancelled"}, t \in {Undef, Some(201)}}
    \cup {EditBody(id, Some(<<ReqLine(NamePa, 1)>>), "", t) :
            id \in SlipIds, t \in {Some(0), Some(201)}}

HasProducts(b) == IsDef(b.products)

\* faulty variant of the cancel guard: cancelledAt is not looked at
CancellingUnguarded(b, existingSlip) == b.status = "Cancelled"

\* line 418
Cancelling(b, existingSlip) == b.status = "Cancelled" /\ ~existingSlip.cancelledAt

\* where the handler goes once the products block (lines 268-344) is over
AfterProducts(b, existingSlip) ==
    IF Cancelling(b, existingSlip) THEN "e_cancelIncome" ELSE "e_saveSlip"

\* where the handler goes once the old quantities are restored (line 292)
AfterRestore(b, existingSlip) ==
    IF Len(Val(b.products)) > 0 THEN "e_validate" ELSE AfterProducts(b, existingSlip)

\* lines 243-270
EditBegin(p, b) ==
    /\ StartTransaction(p, b)
    /\ LET existingSlip == slips[b.id]
       IN  IF ~existingSlip.present
           THEN /\ Respond(p, 404, "aborted")
           ELSE /\ pc' = [pc EXCEPT ![p] =
                            IF HasProducts(b)
                            THEN IF Len(existingSlip.products) > 0
                                 THEN "e_restore"
                                 ELSE AfterRestore(b, existingSlip)
                            ELSE AfterProducts(b, existingSlip)]
                /\ k' = [k EXCEPT ![p] = 1]
                /\ UNCHANGED <<resp, wrote, stale, updates>>
    /\ UNCHANGED <<items, slips, incomes, nextId>>

\* faulty variant of the restore: the Item is looked up and nothing is added
RestoreLineSkipped(p, line) ==
    [conflict |-> FALSE, items |-> view[p].items, wrote |-> wrote[p]]

\* Item.findOne then findByIdAndUpdate({$inc: +quantity}) for one stored line:
\* the view and the written documents after it, when no conflict arises
RestoreLine(p, line) ==
    LET id == FindOne(view[p].items, line.productName)
    IN  IF id = 0
        THEN [conflict |-> FALSE, items |-> view[p].items, wrote |-> wrote[p]]
        ELSE [conflict |-> Conflict(p, ItemDoc(id)),
              items    |-> IncQuantity(view[p].items, id, line.quantity),
              wrote    |-> wrote[p] \cup {ItemDoc(id)}]

\* lines 271-291, one stored line per step
EditRestore(p) ==
    /\ pc[p] = "e_restore"
    /\ LET existingSlip == pre[p].slips[body[p].id]
           r == RestoreLine(p, existingSlip.products[k[p]])
       IN  IF r.conflict
           THEN Abort(p, 500)
           ELSE /\ view' = [view EXCEPT ![p].items = r.items]
                /\ wrote' = [wrote EXCEPT ![p] = r.wrote]
                /\ IF k[p] < Len(existingSlip.products)
                   THEN /\ k' = [k EXCEPT ![p] = @ + 1]
                        /\ UNCHANGED pc
                   ELSE /\ k' = [k EXCEPT ![p] = 1]
                        /\ pc' = [pc EXCEPT ![p] = AfterRestore(body[p], existingSlip)]
                /\ UNCHANGED <<resp, stale, updates, items, slips, incomes>>
    /\ UNCHANGED <<nextId, nreq, body, pre>>

\* line 300: !productName || !quantity || quantity <= 0
InvalidLine(line) == Len(line.productName) = 0 \/ line.quantity = 0 \/ line.quantity <= 0

\* lines 296-334, one requested line per step
EditValidate(p) ==
    /\ pc[p] = "e_validate"
    /\ LET prods == Val(body[p].products)
           line  == prods[k[p]]
           id    == FindOne(view[p].items, line.productName)
       IN  IF InvalidLine(line) \/ id = 0 \/ Insufficient(view[p].items[id], line.quantity)
           THEN Abort(p, 400)
           ELSE /\ updates' = [updates EXCEPT ![p] =
                                  Append(@, [itemId |-> id, quantity |-> line.quantity])]
                /\ IF k[p] < Len(prods)
                   THEN /\ k' = [k EXCEPT ![p] = @ + 1]
                        /\ UNCHANGED pc
                   ELSE /\ k' = [k EXCEPT ![p] = 1]
                        /\ pc' = [pc EXCEPT ![p] = "e_reduce"]
                /\ UNCHANGED <<resp, wrote, stale, view, items, slips, incomes>>
    /\ UNCHANGED <<nextId, nreq, body, pre>>

\* lines 337-343, one findByIdAndUpdate per step
EditReduce(p) ==
    /\ pc[p] = "e_reduce"
    /\ LET u == updates[p][k[p]]
           existingSlip == pre[p].slips[body[p].id]
       IN  IF Conflict(p, ItemDoc(u.itemId))
           THEN Abort(p, 500)
           ELSE /\ view' = [view EXCEPT ![p].items = IncQuantity(@, u.itemId, -u.quantity)]
                /\ wrote' = [wrote EXCEPT ![p] = @ \cup {ItemDoc(u.itemId)}]
                /\ IF k[p] < Len(updates[p])
                   THEN /\ k' = [k EXCEPT ![p] = @ + 1]
                        /\ UNCHANGED pc
                   ELSE /\ k' = [k EXCEPT ![p] = 1]
                        /\ pc' = [pc EXCEPT ![p] = AfterProducts(body[p], existingSlip)]
                /\ UNCHANGED <<resp, stale, updates, items, slips, incomes>>
    /\ UNCHANGED <<nextId, nreq, body, pre>>

\* the filter {$or: [{slipId}, {slipNumber}], isActive: true} of both updateMany calls
LinkedIncomes(incs, slipId) ==
    {j \in 1..Len(incs) : incs[j].slipId = slipId /\ incs[j].isActive}

\* lines 419-435: Income.updateMany(..., {isActive: false})
EditCancelIncome(p) ==
    /\ pc[p] = "e_cancelIncome"
    /\ LET existingSlip == pre[p].slips[body[p].id]
           hit == LinkedIncomes(view[p].incomes, body[p].id)
       IN  IF \E j \in hit : Conflict(p, IncomeDoc(j))
           THEN Abort(p, 500)
           ELSE /\ view' = [view EXCEPT ![p].incomes =
                              [j \in 1..Len(@) |->
                                  IF j \in hit THEN [@[j] EXCEPT !.isActive = FALSE] ELSE @[j]]]
                /\ wrote' = [wrote EXCEPT ![p] = @ \cup {IncomeDoc(j) : j \in hit}]
                /\ k' = [k EXCEPT ![p] = 1]
                /\ pc' = [pc EXCEPT ![p] =
                            IF Len(existingSlip.products) > 0
                            THEN "e_cancelRestore" ELSE "e_saveSlip"]
                /\ UNCHANGED <<resp, stale, updates, items, slips, incomes>>
    /\ UNCHANGED <<nextId, nreq, body, pre>>

\* lines 438-460, one stored line per step
EditCancelRestore(p) ==
    /\ pc[p] = "e_cancelRestore"
    /\ LET existingSlip == pre[p].slips[body[p].id]
           r == RestoreLine(p, existingSlip.products[k[p]])
       IN  IF r.conflict
           THEN Abort(p, 500)
           ELSE /\ view' = [view EXCEPT ![p].items = r.items]
                /\ wrote' = [wrote EXCEPT ![p] = r.wrote]
                /\ IF k[p] < Len(existingSlip.products)
                   THEN /\ k' = [k EXCEPT ![p] = @ + 1]
                        /\ UNCHANGED pc
                   ELSE /\ k' = [k EXCEPT ![p] = 1]
                        /\ pc' = [pc EXCEPT ![p] = "e_saveSlip"]
                /\ UNCHANGED <<resp, stale, updates, items, slips, incomes>>
    /\ UNCHANGED <<nextId, nreq, body, pre>>

\* faulty variant of the update: the totals of the request replace the stored
\* ones also when the request has none
ApplyUpdateReplacesTotals(slip, b, existingSlip) ==
    [slip EXCEPT
        !.subtotal    = b.subtotal,
        !.totalAmount = b.totalAmount,
        !.status      = IF b.status # "" THEN b.status ELSE @,
        !.products    = IF HasProducts(b) THEN EditLines(Val(b.products)) ELSE @,
        !.cancelledAt = IF Cancelling(b, existingSlip) THEN TRUE ELSE @]

\* lines 347-356, 371-417 and 419: updateData applied to the stored document
ApplyUpdate(slip, b, existingSlip) ==
    [slip EXCEPT
        !.subtotal    = IF IsDef(b.subtotal) THEN b.subtotal ELSE @,
        !.totalAmount = IF IsDef(b.totalAmount) THEN b.totalAmount ELSE @,
        !.status      = IF b.status # "" THEN b.status ELSE @,
        !.products    = IF HasProducts(b) THEN EditLines(Val(b.products)) ELSE @,
        !.cancelledAt = IF Cancelling(b, existingSlip) THEN TRUE ELSE @]

\* line 470
UpdatesIncome(b) == HasProducts(b) /\ b.status # "Cancelled"

\* lines 463-467: Slip.findByIdAndUpdate(id, updateData)
EditSaveSlip(p) ==
    /\ pc[p] = "e_saveSlip"
    /\ LET id == body[p].id
       IN  IF Conflict(p, SlipDoc(id))
           THEN Abort(p, 500)
           ELSE /\ view' = [view EXCEPT ![p].slips[id] =
                              IF HasProducts(body[p])
                              THEN Debited(ApplyUpdate(@, body[p], pre[p].slips[id]),
                                           updates[p])
                              ELSE ApplyUpdate(@, body[p], pre[p].slips[id])]
                /\ wrote' = [wrote EXCEPT ![p] = @ \cup {SlipDoc(id)}]
                /\ pc' = [pc EXCEPT ![p] =
                            IF UpdatesIncome(body[p]) THEN "e_income" ELSE "e_commit"]
                /\ UNCHANGED <<resp, stale, updates, k, items, slips, incomes>>
    /\ UNCHANGED <<nextId, nreq, body, pre>>

\* faulty variant of the income update: the sold lines are not rewritten
IncomeUpdateKeepsLines(inc, b, updatedSlip) ==
    [inc EXCEPT !.totalIncome = OrElse(b.totalAmount, updatedSlip.totalAmount)]

\* lines 471-490
IncomeUpdate(inc, b, updatedSlip) ==
    [inc EXCEPT
        !.totalIncome  = OrElse(b.totalAmount, updatedSlip.totalAmount),
        !.productsSold = SoldLines(EditLines(Val(b.products)))]

\* lines 492-502: Income.updateMany(..., incomeUpdate)
EditIncome(p) ==
    /\ pc[p] = "e_income"
    /\ LET id  == body[p].id
           hit == LinkedIncomes(view[p].incomes, id)
       IN  IF \E j \in hit : Conflict(p, IncomeDoc(j))
           THEN Abort(p, 500)
           ELSE /\ view' = [view EXCEPT ![p].incomes =
                              [j \in 1..Len(@) |->
                                  IF j \in hit
                                  THEN IncomeUpdate(@[j], body[p], view[p].slips[id])
                                  ELSE @[j]]]
                /\ wrote' = [wrote EXCEPT ![p] = @ \cup {IncomeDoc(j) : j \in hit}]
                /\ pc' = [pc EXCEPT ![p] = "e_commit"]
                /\ UNCHANGED <<resp, stale, updates, k, items, slips, incomes>>
    /\ UNCHANGED <<nextId, nreq, body, pre>>

\* lines 505-508
EditCommit(p) ==
    /\ pc[p] = "e_commit"
    /\ Commit(p, 200)
    /\ UNCHANGED <<nextId, nreq, body, pre>>

\* lines 510-515: a store call of the try block throws
EditThrow(p) ==
    /\ pc[p] \in EditPcs
    /\ Abort(p, 500)
    /\ UNCHANGED <<nextId, nreq, body, pre>>

(***************************************************************************)
(* Items router: stock adjustment and soft delete; slips router: delete.   *)
(* None of them runs in a transaction: a write waits while an open         *)
(* transaction holds the document.                                         *)
(***************************************************************************)
Held(d) == \E q \in Procs : InTxn(q) /\ d \in wrote[q]

\* response after a write outside a transaction made the documents W visible
RespondWritten(p, code, W) ==
    /\ pc' = [pc EXCEPT ![p] = "done"]
    /\ resp' = [resp EXCEPT ![p] = [code |-> code, txn |-> "none", at |-> pc[p]]]
    /\ wrote' = [wrote EXCEPT ![p] = {}]
    /\ stale' = [q \in Procs |-> IF q = p THEN {} ELSE Publish(p, W)[q]]
    /\ updates' = [updates EXCEPT ![p] = <<>>]
    /\ k' = [k EXCEPT ![p] = 0]

StockBody(id, quantity, operation) ==
    [op |-> "stock", id |-> id, quantity |-> quantity, operation |-> operation]

StockBodies ==
    {StockBody(id, q, o) :
        id \in 1..Len(InitItems),
        q \in {Undef, Some(-1), Some(1), Some(InitQty + 1)},
        o \in {"set", "add", "subtract"}}

\* faulty variant of the adjustment: every mode sets the quantity
NewQuantityAlwaysSet(old, quantity, operation) == quantity

\* lines 371-380 of the items router
NewQuantity(old, quantity, operation) ==
    CASE operation = "add"      -> old + quantity
      [] operation = "subtract" -> old - quantity
      [] OTHER                  -> quantity

\* items router lines 358-380: validate, Item.findById, compute newQuantity
StockBegin(p, b) ==
    /\ Accept(p, b)
    /\ IF ~IsDef(b.quantity) \/ Val(b.quantity) < 0
       THEN Respond(p, 400, "none")
       ELSE LET newQuantity == NewQuantity(items[b.id].quantity, Val(b.quantity), b.operation)
            IN  IF b.operation = "subtract" /\ newQuantity < 0
                THEN Respond(p, 400, "none")
                ELSE /\ pc' = [pc EXCEPT ![p] = "s_save"]
                     /\ updates' = [updates EXCEPT ![p] =
                                       <<[itemId |-> b.id, quantity |-> newQuantity]>>]
                     /\ UNCHANGED <<resp, wrote, stale, k>>
    /\ UNCHANGED <<items, slips, incomes, nextId, view>>

\* items router lines 382-389: item.save()
StockSave(p) ==
    /\ pc[p] = "s_save"
    /\ LET u == updates[p][1]
       IN  /\ ~Held(ItemDoc(u.itemId))
           /\ items' = [items EXCEPT ![u.itemId].quantity = u.quantity]
           /\ RespondWritten(p, 200, {ItemDoc(u.itemId)})
    /\ UNCHANGED <<slips, incomes, nextId, nreq, body, pre, view>>

ItemDeleteBody(id) == [op |-> "itemDelete", id |-> id]

\* items router lines 400-414: Item.findByIdAndUpdate(id, {isActive: false})
ItemDelete(p, b) ==
    /\ Accept(p, b)
    /\ ~Held(ItemDoc(b.id))
    /\ items' = [items EXCEPT ![b.id].isActive = FALSE]
    /\ RespondWritten(p, 200, {ItemDoc(b.id)})
    /\ UNCHANGED <<slips, incomes, nextId, view>>

ItemUpdateBody(id, quantity) == [op |-> "itemUpdate", id |-> id, quantity |-> quantity]

ItemUpdateBodies ==
    {ItemUpdateBody(id, q) : id \in 1..Len(InitItems), q \in {Some(-1), Some(1)}}

\* items router lines 247-340: validate, Item.findByIdAndUpdate(id, {quantity, ...});
\* the filter is the id alone
ItemUpdate(p, b) ==
    /\ Accept(p, b)
    /\ IF Val(b.quantity) < 0
       THEN /\ Respond(p, 400, "none")
            /\ UNCHANGED items
       ELSE /\ ~Held(ItemDoc(b.id))
            /\ items' = [items EXCEPT ![b.id].quantity = Val(b.quantity)]
            /\ RespondWritten(p, 200, {ItemDoc(b.id)})
    /\ UNCHANGED <<slips, incomes, nextId, view>>

SlipDeleteBody(id) == [op |-> "slipDelete", id |-> id]

\* slips router lines 519-529: Slip.findByIdAndDelete(id)
SlipDelete(p, b) ==
    /\ Accept(p, b)
    /\ ~Held(SlipDoc(b.id))
    /\ IF slips[b.id].present
       THEN /\ slips' = [slips EXCEPT ![b.id] = AbsentSlip]
            /\ RespondWritten(p, 200, {SlipDoc(b.id)})
       ELSE /\ Respond(p, 404, "none")
            /\ UNCHANGED slips
    /\ UNCHANGED <<items, incomes, nextId, view>>

Step(p) ==
    \/ CreateCheck(p)
    \/ CreateReduce(p)
    \/ CreateSaveSlip(p)
    \/ CreateSaveIncome(p)
    \/ CreateCommit(p)
    \/ CreateThrow(p)
    \/ EditRestore(p)
    \/ EditValidate(p)
    \/ EditReduce(p)
    \/ EditCancelIncome(p)
    \/ EditCancelRestore(p)
    \/ EditSaveSlip(p)
    \/ EditIncome(p)
    \/ EditCommit(p)
    \/ EditThrow(p)
    \/ StockSave(p)
    \/ Return(p)

AllIdle == \A p \in Procs : pc[p] = "idle"

\* one request at a time
Next ==
    \/ \E p \in SeqProcs, b \in CreateBodies : AllIdle /\ CreateBegin(p, b)
    \/ \E p \in SeqProcs, b \in EditBodies : AllIdle /\ EditBegin(p, b)
    \/ \E p \in SeqProcs, b \in StockBodies : AllIdle /\ StockBegin(p, b)
    \/ \E p \in SeqProcs, id \in 1..Len(InitItems) : AllIdle /\ ItemDelete(p, ItemDeleteBody(id))
    \/ \E p \in SeqProcs, b \in ItemUpdateBodies : AllIdle /\ ItemUpdate(p, b)
    \/ \E p \in SeqProcs, id \in SlipIds : AllIdle /\ SlipDelete(p, SlipDeleteBody(id))
    \/ \E p \in SeqProcs : Step(p)

Spec == Init /\ [][Next]_vars

(***************************************************************************)
(* Requests that overlap in time: every task may start a request while     *)
(* another is between two of its store round-trips.                        *)
(***************************************************************************)
ConcLists == {<<ReqLine(NamePa, q)>> : q \in 1..MaxReqQty}

ConcCreateBodies == {CreateBody(Some(l), Given, Given) : l \in ConcLists}

ConcEditBodies ==
    {EditBody(id, Some(l), "", Undef) : id \in SlipIds, l \in ConcLists}
    \cup {EditBody(id, Undef, "Cancelled", Undef) : id \in SlipIds}

ConcStockBodies == {StockBody(1, Some(1), o) : o \in {"add", "subtract"}}

NextConc ==
    \/ \E p \in Procs, b \in ConcCreateBodies : CreateBegin(p, b)
    \/ \E p \in Procs, b \in ConcEditBodies : EditBegin(p, b)
    \/ \E p \in Procs, b \in ConcStockBodies : StockBegin(p, b)
    \/ \E p \in Procs : ItemDelete(p, ItemDeleteBody(1))
    \/ \E p \in Procs, id \in SlipIds : SlipDelete(p, SlipDeleteBody(id))
    \/ \E p \in Procs : Step(p)

SpecConc == Init /\ [][NextConc]_vars

(***************************************************************************)
(* The slips router alone: Create, Edit, Cancel and slip deletion, one     *)
(* request at a time, with no request of the items router.                 *)
(***************************************************************************)
SalesStep(p) ==
    \/ CreateCheck(p)
    \/ CreateReduce(p)
    \/ CreateSaveSlip(p)
    \/ CreateSaveIncome(p)
    \/ CreateCommit(p)
    \/ CreateThrow(p)
    \/ EditRestore(p)
    \/ EditValidate(p)
    \/ EditReduce(p)
    \/ EditCancelIncome(p)
    \/ EditCancelRestore(p)
    \/ EditSaveSlip(p)
    \/ EditIncome(p)
    \/ EditCommit(p)
    \/ EditThrow(p)
    \/ Return(p)

NextSales ==
    \/ \E p \in SeqProcs, b \in CreateBodies : AllIdle /\ CreateBegin(p, b)
    \/ \E p \in SeqProcs, b \in EditBodies : AllIdle /\ EditBegin(p, b)
    \/ \E p \in SeqProcs, id \in SlipIds : AllIdle /\ SlipDelete(p, SlipDeleteBody(id))
    \/ \E p \in SeqProcs : SalesStep(p)

SpecSales == Init /\ [][NextSales]_vars

(***************************************************************************)
(* The pricing callbacks alone: a behaviour starts with one requested line *)
(* and a handler's products.map callback prices it.                        *)
(***************************************************************************)
PriceLine(q, basePrice, unitPrice, price, productType, coverType) ==
    [ productName |-> NamePa, quantity |-> q, basePrice |-> basePrice,
      unitPrice |-> unitPrice, price |-> price, productType |-> productType,
      coverType |-> coverType, plateCompany |-> "", formCompany |-> "" ]

\* quantities around the bulk threshold, prices absent, zero, at, and at 5 and 10
\* below the base price, every cover type of the allow-list and one outside it
PriceLines ==
    {PriceLine(q, b, u, pr, pt, ct) :
        q  \in {1, BulkThreshold - 1, BulkThreshold, BulkThreshold + 1},
        b  \in {Undef, Some(0), Some(100)},
        u  \in {Undef, Some(0), Some(90), Some(95), Some(100)},
        pr \in {Undef, Some(50)},
        pt \in {"", "Cover", "Plate"},
        ct \in BulkDiscountTypes \cup {"", "Plain Cover"}}

\* lines of a Form product, which carry a form company
FormLines ==
    {[PriceLine(q, Some(100), Undef, Undef, "Form", "") EXCEPT !.formCompany = "Ravi"] :
        q \in {1, BulkThreshold}}

PriceBody(line) == [op |-> "price", line |-> line]

InitPricing ==
    /\ \E line \in PriceLines \cup FormLines :
          body = [p \in Procs |-> IF p \in SeqProcs THEN PriceBody(line) ELSE NoBody]
    /\ items = InitItems
    /\ slips = [i \in SlipIds |-> AbsentSlip]
    /\ incomes = <<>>
    /\ nextId = 1
    /\ nreq = 0
    /\ pc = [p \in Procs |-> "idle"]
    /\ pre = [p \in Procs |-> NoView]
    /\ view = [p \in Procs |-> NoView]
    /\ wrote = [p \in Procs |-> {}]
    /\ stale = [p \in Procs |-> {}]
    /\ updates = [p \in Procs |-> <<>>]
    /\ k = [p \in Procs |-> 0]
    /\ resp = [p \in Procs |-> NoResp]

\* lines 124-172: the callback of the create handler applied to the line
CreatePrice(p) ==
    /\ pc[p] = "idle" /\ body[p].op = "price"
    /\ updates' = [updates EXCEPT ![p] = <<CreateLine(body[p].line)>>]
    /\ pc' = [pc EXCEPT ![p] = "c_priced"]
    /\ UNCHANGED <<items, slips, incomes, nextId, nreq, body, pre, view, wrote, stale, k, resp>>

\* lines 371-417: the callback of the edit handler applied to the line
EditPrice(p) ==
    /\ pc[p] = "idle" /\ body[p].op = "price"
    /\ updates' = [updates EXCEPT ![p] = <<EditLine(body[p].line)>>]
    /\ pc' = [pc EXCEPT ![p] = "e_priced"]
    /\ UNCHANGED <<items, slips, incomes, nextId, nreq, body, pre, view, wrote, stale, k, resp>>

NextPricing ==
    \/ \E p \in SeqProcs : CreatePrice(p)
    \/ \E p \in SeqProcs : EditPrice(p)

SpecPricing == InitPricing /\ [][NextPricing]_vars

(***************************************************************************)
(* Properties                                                              *)
(***************************************************************************)
Done(p, op) == pc[p] = "done" /\ body[p].op = op

\* the quantity the lines reserve from Item i, each line resolved in the Items its
RECURSIVE Reserved(_, _, _)
Reserved(lines, its, i) ==
    IF lines = <<>> THEN 0
    ELSE (IF FindOne(its, Head(lines).productName) = i THEN Head(lines).quantity ELSE 0)
         + Reserved(Tail(lines), its, i)

ItemIds == 1..Len(items)

PresentSlips(sl) == {id \in SlipIds : sl[id].present}

\* a Create whose request passes the field validation of lines 69-75
ValidCreate(p) ==
    /\ Done(p, "create")
    /\ IsDef(body[p].products) /\ Len(Val(body[p].products)) > 0
    /\ IsDef(body[p].subtotal) /\ IsDef(body[p].totalAmount)

\* line j of the request resolves to no active Item, or asks for more than it has
LineFails(its, line) ==
    LET id == FindOne(its, line.productName)
    IN  id = 0 \/ line.quantity > its[id].quantity

\* C1: in every reachable state every Item's quantity is >= 0, also after a
\* Create or Edit whose lines resolve to one Item and together exceed its stock
C1_QuantityNeverNegative ==
    \A i \in ItemIds : items[i].quantity >= 0

\* C2: a Create with a line that resolves to no active Item, or that asks for
\* more than the resolved Item has, at any position of the request, is refused,
\* and Items, Slips and Incomes are as they were before the request
C2_CreateAllOrNothing ==
    \A p \in Procs :
        (ValidCreate(p)
         /\ \E j \in 1..Len(Val(body[p].products)) :
                LineFails(pre[p].items, Val(body[p].products)[j]))
        => (resp[p].code # 201 /\ Store = pre[p])

\* C2 witness: a refused Create whose second line is the failing one
C2_Witness ==
    \E p \in Procs :
        /\ ValidCreate(p)
        /\ resp[p].code = 400
        /\ Len(Val(body[p].products)) = 2
        /\ ~LineFails(pre[p].items, Val(body[p].products)[1])
        /\ Val(body[p].products)[1].quantity > 0
        /\ LineFails(pre[p].items, Val(body[p].products)[2])

\* C3: after a successful Create every Item holds its quantity before the request
\* minus the sum of the request's lines that resolved to it (so an Item no line
\* resolved to is unchanged), and exactly one new Slip exists, with status Paid
C3_CreateDecrements ==
    \A p \in Procs :
        (Done(p, "create") /\ resp[p].code = 201)
        => /\ \A i \in ItemIds :
                items[i].quantity =
                    pre[p].items[i].quantity
                    - Reserved(Val(body[p].products), pre[p].items, i)
           /\ \E id \in SlipIds :
                /\ ~pre[p].slips[id].present
                /\ slips[id].present
                /\ slips[id].status = "Paid"
                /\ \A o \in SlipIds \ {id} : slips[o] = pre[p].slips[o]

\* C3 witness: a successful Create of two lines that left one Item reduced
\* and the other as it was
C3_Witness ==
    \E p \in Procs :
        /\ Done(p, "create") /\ resp[p].code = 201
        /\ Len(Val(body[p].products)) = 2
        /\ items[1].quantity < pre[p].items[1].quantity
        /\ items[2].quantity = pre[p].items[2].quantity

\* C4: a Create in which a store call throws after earlier writes of the request
\* (the Income insert after the decrements and the Slip insert) is rolled back:
\* Items, Slips and Incomes are as they were before the request
C4_CreateRollsBack ==
    \A p \in Procs :
        (Done(p, "create") /\ resp[p].code = 500) => Store = pre[p]

\* C4 witness: the Income insert threw after a positive quantity was decremented
C4_Witness ==
    \E p \in Procs :
        /\ Done(p, "create") /\ resp[p].code = 500
        /\ resp[p].at = "c_saveIncome"
        /\ \E i \in ItemIds : Reserved(Val(body[p].products), pre[p].items, i) > 0

\* a committed Create, or a committed Edit that carries a products list
Reserving(p) ==
    /\ pc[p] = "done"
    /\ resp[p].txn = "committed"
    /\ \/ body[p].op = "create"
       \/ body[p].op = "edit" /\ HasProducts(body[p]) /\ body[p].status # "Cancelled"

RECURSIVE SumQuantity(_)
SumQuantity(lines) ==
    IF lines = <<>> THEN 0 ELSE Head(lines).quantity + SumQuantity(Tail(lines))

RECURSIVE SumOver(_, _)
SumOver(f, S) ==
    IF S = {} THEN 0 ELSE LET x == CHOOSE y \in S : TRUE IN f[x] + SumOver(f, S \ {x})

\* what the existing Slips hold of the first Item when every line names it
HeldBySlips == SumOver([id \in SlipIds |-> SumQuantity(slips[id].products)], PresentSlips(slips))

\* every request so far is the Create of an existing Slip or one of the two
\* requests the tasks have just answered
OnlyReservations ==
    /\ \A p \in Procs : Reserving(p)
    /\ nreq = Cardinality(Procs) + Cardinality(PresentSlips(slips))
              - Cardinality({p \in Procs : body[p].op = "create"})

\* C5: two requests that reserve from the same Item, in any interleaving of
\* their store round-trips, do not both succeed when together they ask for more
\* than the Item has: when both have committed, what the Slips hold of the Item
\* is within its initial stock and the Item's quantity is the rest
C5_NoOverbooking ==
    OnlyReservations
    => /\ HeldBySlips <= InitQty
       /\ items[1].quantity = InitQty - HeldBySlips

\* C5 witness: two Creates that both read the initial stock; one committed, the
\* other hit the write conflict at its decrement and was aborted
C5_Witness ==
    \E p, q \in Procs :
        /\ p # q /\ nreq = 2
        /\ Done(p, "create") /\ resp[p].code = 201
        /\ Done(q, "create") /\ resp[q].code = 500 /\ resp[q].at = "c_reduce"
        /\ pre[p].items = InitItems /\ pre[q].items = InitItems
        /\ SumQuantity(Val(body[p].products)) + SumQuantity(Val(body[q].products)) > InitQty

\* an Edit that cancels: status = Cancelled on a Slip not cancelled before
CancellingEdit(p) ==
    /\ Done(p, "edit")
    /\ resp[p].code = 200
    /\ body[p].status = "Cancelled"
    /\ ~pre[p].slips[body[p].id].cancelledAt

\* C6: an Edit that sets status = Cancelled on a Slip not already cancelled adds
\* to each Item exactly the sum of the Slip's pre-edit lines that resolve to it,
\* whether or not the request carries a products list
C6_CancelRestoresOnce ==
    \A p \in Procs :
        CancellingEdit(p)
        => \A i \in ItemIds :
              items[i].quantity =
                  pre[p].items[i].quantity
                  + Reserved(pre[p].slips[body[p].id].products, pre[p].items, i)

\* the request is a bare cancellation: status = Cancelled and nothing else
BareCancel(b) ==
    b.status = "Cancelled" /\ ~HasProducts(b) /\ ~IsDef(b.totalAmount) /\ ~IsDef(b.subtotal)

\* C7: cancelling a Slip that is already cancelled changes no Item, deactivates
\* no Income and leaves the Slip as it was: the second cancel is a no-op
C7_CancelIdempotent ==
    \A p \in Procs :
        (/\ Done(p, "edit")
         /\ BareCancel(body[p])
         /\ resp[p].code = 200
         /\ pre[p].slips[body[p].id].status = "Cancelled"
         /\ pre[p].slips[body[p].id].cancelledAt)
        => Store = pre[p]

\* C7 witness: a second cancel of a Slip whose lines held stock, and whose
\* first cancel had deactivated its Income
C7_Witness ==
    \E p \in Procs :
        /\ Done(p, "edit") /\ BareCancel(body[p]) /\ resp[p].code = 200
        /\ pre[p].slips[body[p].id].status = "Cancelled"
        /\ pre[p].slips[body[p].id].cancelledAt
        /\ \E i \in ItemIds :
              Reserved(pre[p].slips[body[p].id].products, pre[p].items, i) > 0
        /\ \E j \in 1..Len(incomes) : incomes[j].slipId = body[p].id /\ ~incomes[j].isActive

NamesAndQuantities(ls) ==
    [i \in 1..Len(ls) |-> [productName |-> ls[i].productName, quantity |-> ls[i].quantity]]

\* the request's products list has the names and quantities of the stored lines
SameLines(p) ==
    /\ Done(p, "edit")
    /\ pre[p].slips[body[p].id].present
    /\ HasProducts(body[p])
    /\ NamesAndQuantities(Val(body[p].products))
         = NamesAndQuantities(pre[p].slips[body[p].id].products)

\* C8 as claimed: an Edit whose products list has the names and quantities of the
\* Slip's lines leaves every Item's quantity as it was
C8_SameLinesNoChange ==
    \A p \in Procs : SameLines(p) => items = pre[p].items

\* C8 amended: the same, for an Edit that does not also cancel the Slip
C8_SameLinesNoChangeUnlessCancelling ==
    \A p \in Procs :
        (SameLines(p) /\ ~Cancelling(body[p], pre[p].slips[body[p].id]))
        => items = pre[p].items

\* C8 witness: such an Edit committed on a Slip whose line holds stock
C8_Witness ==
    \E p \in Procs :
        /\ SameLines(p) /\ resp[p].code = 200
        /\ ~Cancelling(body[p], pre[p].slips[body[p].id])
        /\ \E i \in ItemIds :
              Reserved(pre[p].slips[body[p].id].products, pre[p].items, i) > 0

\* an Edit of a Slip that is not cancelled, replacing its lines by one valid line
\* on an existing Item, with no cancellation in the request
OneLineEdit(p) ==
    /\ Done(p, "edit")
    /\ pre[p].slips[body[p].id].present
    /\ pre[p].slips[body[p].id].status # "Cancelled"
    /\ body[p].status # "Cancelled"
    /\ HasProducts(body[p])
    /\ Len(Val(body[p].products)) = 1
    /\ Val(body[p].products)[1].quantity > 0
    /\ FindOne(pre[p].items, Val(body[p].products)[1].productName) # 0

\* C9: with s the Item's stock and qOld what the Slip's lines hold of it, an Edit
\* to quantity qNew commits exactly when qNew <= s + qOld and leaves the Item at
\* s + qOld - qNew; it is refused for stock only when qNew > s + qOld
C9_EditCountsOwnReservation ==
    \A p \in Procs :
        (OneLineEdit(p) /\ resp[p].code # 500)
        => LET line == Val(body[p].products)[1]
               i    == FindOne(pre[p].items, line.productName)
               s    == pre[p].items[i].quantity
               qOld == Reserved(pre[p].slips[body[p].id].products, pre[p].items, i)
           IN  IF line.quantity <= s + qOld
               THEN resp[p].code = 200 /\ items[i].quantity = s + qOld - line.quantity
               ELSE resp[p].code = 400 /\ items = pre[p].items

\* C9 witness: the Edit committed although the Item alone had less than qNew
C9_Witness ==
    \E p \in Procs :
        /\ OneLineEdit(p) /\ resp[p].code = 200
        /\ LET line == Val(body[p].products)[1]
               i    == FindOne(pre[p].items, line.productName)
           IN  /\ pre[p].items[i].quantity < line.quantity
               /\ Reserved(pre[p].slips[body[p].id].products, pre[p].items, i) > 0

\* C10: an Edit that is refused or fails leaves Items, Slips and Incomes as they
\* were before the request, the restored quantities of its first phase included
C10_RejectedEditNoChange ==
    \A p \in Procs :
        (Done(p, "edit") /\ resp[p].code # 200) => Store = pre[p]

\* C10 witness: an Edit refused at validation after its first phase had restored
\* a positive quantity
C10_Witness ==
    \E p \in Procs :
        /\ Done(p, "edit") /\ resp[p].code = 400 /\ resp[p].at = "e_validate"
        /\ \E i \in ItemIds :
              Reserved(pre[p].slips[body[p].id].products, pre[p].items, i) > 0

(***************************************************************************)
(* Income mirror                                                           *)
(***************************************************************************)
\* the active Income Entries whose slipId is the given Sale Record
ActiveIncomesOf(incs, slipId) ==
    {j \in 1..Len(incs) : incs[j].isActive /\ incs[j].slipId = slipId}

\* C11: in every state each present Sale Record whose status is not Cancelled has
\* exactly one active Income Entry linked to it, and each active Income Entry is
\* linked to a present Sale Record whose status is not Cancelled
C11_IncomeMirrorsSlip ==
    /\ \A id \in SlipIds :
          (slips[id].present /\ slips[id].status # "Cancelled")
              => Cardinality(ActiveIncomesOf(incomes, id)) = 1
    /\ \A j \in 1..Len(incomes) :
          incomes[j].isActive
              => /\ incomes[j].slipId \in SlipIds
                 /\ slips[incomes[j].slipId].present
                 /\ slips[incomes[j].slipId].status # "Cancelled"

\* an Edit that carried a products list, answered 200 and left the record with a
\* status other than Cancelled
EditedLines(p) ==
    /\ Done(p, "edit") /\ resp[p].code = 200
    /\ IsDef(body[p].products)
    /\ slips[body[p].id].status # "Cancelled"

\* C12: after a successful Edit that carries a products list and leaves the record
\* not Cancelled, the record's active Income Entry has sold lines equal to the
\* record's new lines and totalIncome equal to the record's new totalAmount
C12_EditRewritesIncome ==
    \A p \in Procs :
        EditedLines(p) =>
            \A j \in ActiveIncomesOf(incomes, body[p].id) :
                /\ incomes[j].productsSold = SoldLines(slips[body[p].id].products)
                /\ incomes[j].totalIncome = slips[body[p].id].totalAmount

\* C12 witness: such an Edit changed both the lines and the totalAmount of a
\* record that has an active Income Entry
C12_Witness ==
    \E p \in Procs :
        /\ EditedLines(p)
        /\ ActiveIncomesOf(incomes, body[p].id) # {}
        /\ slips[body[p].id].products # pre[p].slips[body[p].id].products
        /\ slips[body[p].id].totalAmount # pre[p].slips[body[p].id].totalAmount

(***************************************************************************)
(* Pricing rules, stated on a line a callback has priced                   *)
(***************************************************************************)
Priced(p) == pc[p] \in {"c_priced", "e_priced"}

\* the bulk rule as the claims word it, on the requested line and its priced line
BulkEligible(line, out) ==
    /\ out.productType = "Cover"
    /\ line.coverType \in {"Aster Cover", "Without Aster Cover", "Calendar Cover"}
    /\ line.quantity >= 10

BulkPerUnit(line, out) == IF BulkEligible(line, out) THEN 10 ELSE 0

\* the caller supplied a unit price other than basePrice minus the bulk discount
SuppliesDiffering(line, out) ==
    /\ line.unitPrice # {}
    /\ line.unitPrice # {out.basePrice - BulkPerUnit(line, out)}

\* C13: with no differing unit price supplied, a line gets the bulk discount
\* exactly when its product type is Cover, its cover type is Aster Cover, Without
\* Aster Cover or Calendar Cover and its quantity is at least 10: then unitPrice =
\* basePrice - 10, discountAmount = 10 x quantity and discountType is bulk;
\* otherwise unitPrice = basePrice, discountAmount = 0 and discountType is none
C13_BulkDiscountRule ==
    \A p \in Procs :
        Priced(p) =>
            LET line == body[p].line
                out  == updates[p][1]
            IN  ~SuppliesDiffering(line, out) =>
                    IF BulkEligible(line, out)
                    THEN /\ out.unitPrice = out.basePrice - 10
                         /\ out.discountAmount = 10 * line.quantity
                         /\ out.discountType = "bulk"
                    ELSE /\ out.unitPrice = out.basePrice
                         /\ out.discountAmount = 0
                         /\ out.discountType = "none"

\* C13 witness: an Aster Cover line of quantity 10 and basePrice 100 with no unit
\* price supplied was priced at 90 with discountAmount 100
C13_Witness ==
    \E p \in Procs :
        /\ Priced(p)
        /\ body[p].line.coverType = "Aster Cover" /\ body[p].line.quantity = 10
        /\ body[p].line.unitPrice = {} /\ body[p].line.basePrice = {100}
        /\ updates[p][1].productType = "Cover"
        /\ updates[p][1].unitPrice = 90 /\ updates[p][1].discountAmount = 100

\* C14: whenever the caller supplies a unit price that differs from basePrice
\* minus the bulk discount, the priced line has that unit price, discountType
\* manual and discountAmount = (basePrice - supplied price) x quantity, whether
\* or not the line is eligible for the bulk discount
C14_ManualOverride ==
    \A p \in Procs :
        Priced(p) =>
            LET line == body[p].line
                out  == updates[p][1]
            IN  SuppliesDiffering(line, out) =>
                    /\ {out.unitPrice} = line.unitPrice
                    /\ out.discountType = "manual"
                    /\ \A u \in line.unitPrice :
                          out.discountAmount = (out.basePrice - u) * line.quantity

\* C14 witness: a bulk-eligible line of quantity 10 and basePrice 100 with unit
\* price 95 supplied was priced manual with discountAmount 50
C14_Witness ==
    \E p \in Procs :
        /\ Priced(p)
        /\ BulkEligible(body[p].line, updates[p][1])
        /\ body[p].line.quantity = 10
        /\ body[p].line.basePrice = {100} /\ body[p].line.unitPrice = {95}
        /\ updates[p][1].discountType = "manual" /\ updates[p][1].discountAmount = 50

(***************************************************************************)
(* Validation and transaction discipline                                   *)
(***************************************************************************)
\* a Create whose request fails the field validation of lines 69-75
InvalidCreate(p) ==
    /\ Done(p, "create")
    /\ \/ body[p].products = {}
       \/ \E l \in body[p].products : Len(l) = 0
       \/ body[p].subtotal = {}
       \/ body[p].totalAmount = {}

\* C15: a Create with an empty or missing line list, or without subtotal or
\* totalAmount, is answered 400 with Items, Sale Records and Income Entries as
\* they were and with no transaction opened or left open
C15_InvalidCreateBeforeStore ==
    \A p \in Procs :
        InvalidCreate(p) =>
            /\ resp[p].code = 400
            /\ Store = pre[p]
            /\ resp[p].txn = "none"

\* a Create or an Edit whose request carries a line of negative quantity
NegativeLine(p) ==
    /\ Done(p, "create") \/ Done(p, "edit")
    /\ \E l \in body[p].products : \E j \in 1..Len(l) : l[j].quantity < 0

\* C16: a Create or an Edit with a line of negative quantity is refused and
\* changes no Item quantity
C16_NegativeQuantityRejected ==
    \A p \in Procs :
        NegativeLine(p) =>
            /\ resp[p].code \notin {200, 201}
            /\ \A i \in ItemIds : items[i].quantity = pre[p].items[i].quantity

\* C17: a Create or an Edit that has responded has committed or aborted the
\* transaction it started: no response leaves it open
C17_TransactionEnded ==
    \A p \in Procs :
        (Done(p, "create") \/ Done(p, "edit")) => resp[p].txn \in {"committed", "aborted"}

\* C18: an Edit of a Sale Record whose status is Cancelled leaves its status
\* Cancelled
C18_CancelledIsTerminal ==
    \A p \in Procs :
        (/\ Done(p, "edit")
         /\ pre[p].slips[body[p].id].present
         /\ pre[p].slips[body[p].id].status = "Cancelled"
         /\ slips[body[p].id].present)
            => slips[body[p].id].status = "Cancelled"

(***************************************************************************)
(* Partial update                                                          *)
(***************************************************************************)
\* C19: a successful Edit leaves every field of the record that the request does
\* not carry (subtotal, totalAmount, status, products) at its prior value, and an
\* Edit with no products list and no status = Cancelled changes no Item quantity
\* and no line of the record
C19_EditOverwritesOnlyPresent ==
    \A p \in Procs :
        (Done(p, "edit") /\ resp[p].code = 200) =>
            LET b   == body[p]
                old == pre[p].slips[b.id]
                new == slips[b.id]
            IN  /\ b.subtotal = {} => new.subtotal = old.subtotal
                /\ b.totalAmount = {} => new.totalAmount = old.totalAmount
                /\ b.status = "" => new.status = old.status
                /\ b.products = {} => new.products = old.products
                /\ (b.products = {} /\ b.status # "Cancelled") =>
                       \A i \in ItemIds : items[i].quantity = pre[p].items[i].quantity

\* C19 witness: an Edit carrying only a totalAmount was applied to a record that
\* has lines, and changed its totalAmount
C19_Witness ==
    \E p \in Procs :
        /\ Done(p, "edit") /\ resp[p].code = 200
        /\ body[p].products = {} /\ body[p].status = "" /\ body[p].totalAmount # {}
        /\ pre[p].slips[body[p].id].products # <<>>
        /\ slips[body[p].id].totalAmount = body[p].totalAmount
        /\ slips[body[p].id].totalAmount # pre[p].slips[body[p].id].totalAmount

(***************************************************************************)
(* Soft-deleted Items                                                      *)
(***************************************************************************)
\* C20: a request leaves every Item that was inactive before it as it was, and a
\* stock adjustment or item update addressed to an inactive Item does not succeed
C20_InactiveItemUntouched ==
    \A p \in Procs :
        pc[p] = "done" =>
            /\ \A i \in ItemIds : ~pre[p].items[i].isActive => items[i] = pre[p].items[i]
            /\ (body[p].op \in {"stock", "itemUpdate"} /\ ~pre[p].items[body[p].id].isActive)
                   => resp[p].code # 200

(***************************************************************************)
(* Stock adjustment                                                        *)
(***************************************************************************)
\* C21: a stock adjustment sets the Item's quantity to q (set), old + q (add) or
\* old - q (subtract); a subtract with q above the current quantity, and any
\* request with q missing or negative, fails and leaves the quantity as it was
C21_StockAdjustment ==
    \A p \in Procs :
        Done(p, "stock") =>
            LET b   == body[p]
                old == pre[p].items[b.id].quantity
                new == items[b.id].quantity
            IN  IF \/ b.quantity = {}
                   \/ \E q \in b.quantity : q < 0
                   \/ b.operation = "subtract" /\ \E q \in b.quantity : q > old
                THEN resp[p].code = 400 /\ new = old
                ELSE /\ resp[p].code = 200
                     /\ \A q \in b.quantity :
                           new = CASE b.operation = "set"      -> q
                                   [] b.operation = "add"      -> old + q
                                   [] b.operation = "subtract" -> old - q

\* C21 witness: a subtract of 1 was applied to an Item that had at least 1
C21_Witness ==
    \E p \in Procs :
        /\ Done(p, "stock") /\ resp[p].code = 200
        /\ body[p].operation = "subtract" /\ body[p].quantity = {1}
        /\ items[body[p].id].quantity = pre[p].items[body[p].id].quantity - 1

(***************************************************************************)
(* Cancellation and restore                                                *)
(***************************************************************************)
\* some line of the Sale Record the request addresses resolved to no active Item
\* when the request began
UnresolvedLine(p) ==
    \E j \in 1..Len(pre[p].slips[body[p].id].products) :
        FindOne(pre[p].items, pre[p].slips[body[p].id].products[j].productName) = 0

\* C22: a cancellation of a Sale Record one of whose lines resolves to no active
\* Item does not complete: it is answered with an error and changes nothing
C22_CancelFailsOnUnresolvedLine ==
    \A p \in Procs :
        (/\ Done(p, "edit")
         /\ body[p].status = "Cancelled" /\ body[p].products = {}
         /\ pre[p].slips[body[p].id].present
         /\ ~pre[p].slips[body[p].id].cancelledAt
         /\ UnresolvedLine(p))
            => resp[p].code # 200 /\ Store = pre[p]

(***************************************************************************)
(* Stock conservation                                                      *)
(***************************************************************************)
\* what the lines of the existing, non-cancelled Sale Records hold of Item i
HeldOf(i) ==
    SumOver([id \in SlipIds |-> Reserved(slips[id].products, items, i)],
            {id \in SlipIds : slips[id].present /\ slips[id].status # "Cancelled"})

\* C23: with no stock adjustment and no item update, in every state each Item's
\* quantity plus the quantities of the lines of existing non-cancelled Sale
\* Records that resolve to it is the Item's initial quantity
C23_StockConservation ==
    \A i \in ItemIds : items[i].quantity + HeldOf(i) = InitItems[i].quantity

\* C24: an Edit of a Sale Record that is already cancelled changes no Item
\* quantity, with or without a products list
C24_EditOfCancelledKeepsStock ==
    \A p \in Procs :
        (/\ Done(p, "edit")
         /\ pre[p].slips[body[p].id].present
         /\ pre[p].slips[body[p].id].status = "Cancelled"
         /\ pre[p].slips[body[p].id].cancelledAt)
            => \A i \in ItemIds : items[i].quantity = pre[p].items[i].quantity

\* an Edit that ran a restore loop over the record's old lines and committed
Restoring(p) ==
    /\ Done(p, "edit") /\ resp[p].code = 200
    /\ \/ body[p].products # {}
       \/ body[p].status = "Cancelled" /\ ~pre[p].slips[body[p].id].cancelledAt

\* C25: the Item a restore credits for a line, by Edit or by Cancel, is the Item
\* the line was debited from when it was committed
C25_RestoreCreditsDebitedItem ==
    \A p \in Procs :
        Restoring(p) =>
            LET old == pre[p].slips[body[p].id]
            IN  \A j \in 1..Len(old.products) :
                    FindOne(pre[p].items, old.products[j].productName)
                        \in {0, old.debited[j]}

(***************************************************************************)
(* Priced Lines                                                            *)
(***************************************************************************)
\* totalPrice = quantity x unitPrice and discountAmount = (basePrice - unitPrice)
\* x quantity on the line a callback has priced
LineArithmetic(out) ==
    /\ out.totalPrice = out.quantity * out.unitPrice
    /\ out.discountAmount = (out.basePrice - out.unitPrice) * out.quantity

\* C26 as stated: every Priced Line has totalPrice = quantity x unitPrice and
\* discountAmount = (basePrice - unitPrice) x quantity, and its discountType is
\* none exactly when its discountAmount is 0
C26_PricedLineArithmetic ==
    \A p \in Procs :
        Priced(p) =>
            /\ LineArithmetic(updates[p][1])
            /\ updates[p][1].discountType = "none" <=> updates[p][1].discountAmount = 0

\* C26 amended: every Priced Line has totalPrice = quantity x unitPrice and
\* discountAmount = (basePrice - unitPrice) x quantity; discountType none implies
\* discountAmount 0, and a line with discountAmount 0 is of type none or manual
C26_PricedLineArithmeticManualZero ==
    \A p \in Procs :
        Priced(p) =>
            /\ LineArithmetic(updates[p][1])
            /\ updates[p][1].discountType = "none" => updates[p][1].discountAmount = 0
            /\ updates[p][1].discountAmount = 0
                   => updates[p][1].discountType \in {"none", "manual"}

\* C26 witness: a bulk-eligible line whose supplied unit price is its basePrice
\* was priced manual with discountAmount 0
C26_Witness ==
    \E p \in Procs :
        /\ Priced(p)
        /\ BulkEligible(body[p].line, updates[p][1])
        /\ body[p].line.unitPrice = {updates[p][1].basePrice}
        /\ updates[p][1].discountType = "manual"
        /\ updates[p][1].discountAmount = 0

\* C27: the Priced Line the edit callback produces for a requested line is,
\* field for field, the one the create callback produces for the same line
C27_EditLineIsCreateLine ==
    \A p \in Procs :
        pc[p] = "e_priced" => updates[p][1] = CreateLine(body[p].line)

(***************************************************************************)
(* Stock adjustment overlapping a Create                                   *)
(***************************************************************************)
\* the signed amount of an add or a subtract
Adjustment(b) ==
    IF b.operation = "add" THEN SumOver([q \in b.quantity |-> q], b.quantity)
    ELSE 0 - SumOver([q \in b.quantity |-> q], b.quantity)

\* C28: when the only two requests so far are a successful add or subtract on the
\* first Item and a committed Create whose lines reserve from it, in whatever
\* order their steps ran, the Item's quantity is its initial quantity adjusted by
\* the one and reduced by the other
C28_AdjustmentAndCreateBothCount ==
    \A p, q \in Procs :
        (/\ nreq = 2
         /\ Done(p, "stock") /\ resp[p].code = 200 /\ body[p].id = 1
         /\ body[p].operation \in {"add", "subtract"}
         /\ Done(q, "create") /\ resp[q].code = 201)
            => items[1].quantity
                   = InitQty + Adjustment(body[p]) - SumQuantity(slips[1].products)

\* C29: in every state every active Income Entry linked to an existing Sale
\* Record has totalIncome equal to the record's totalAmount and sold lines equal
\* to the record's lines
C29_IncomeEqualsSlip ==
    \A id \in SlipIds :
        slips[id].present =>
            \A j \in ActiveIncomesOf(incomes, id) :
                /\ incomes[j].totalIncome = slips[id].totalAmount
                /\ incomes[j].productsSold = SoldLines(slips[id].products)

====
